---- MODULE Spec2Model ----
(***************************************************************************)
(* Model of src/src/app.py: the module-level start-up (route and hook      *)
(* registration, the __main__ block), the Flask request lifecycle around   *)
(* the before_request / after_request hooks, the prometheus metric objects *)
(* and the psutil samplers with their degraded values.                     *)
(***************************************************************************)
EXTENDS Integers, Sequences, FiniteSets, TLC

VARIABLES
    name_main,            \* __name__ == "__main__" (run as a script)
    module_pc,            \* position of the module-level code of app.py
    before_request_funcs, \* hooks registered with @app.before_request
    after_request_funcs,  \* hooks registered with @app.after_request
    propagate_exceptions, \* Flask: app.testing or app.debug
    clock,                \* time.time()
    START_TIME,
    req,                  \* the requests, each with its position in the lifecycle
    REQUEST_COUNT,
    REQUEST_DURATION,
    ACTIVE_REQUESTS,
    MEMORY_USAGE_GAUGE,
    CPU_USAGE_GAUGE,
    UPTIME_GAUGE,
    log,                  \* records written through logger
    environ,              \* os.environ
    host,                 \* what the psutil / os calls of the samplers yield
    sampled               \* the last value each sampler returned

vars == <<name_main, module_pc, before_request_funcs, after_request_funcs,
          propagate_exceptions, clock, START_TIME, req, REQUEST_COUNT,
          REQUEST_DURATION, ACTIVE_REQUESTS, MEMORY_USAGE_GAUGE, CPU_USAGE_GAUGE,
          UPTIME_GAUGE, log, environ, host, sampled>>

registry == <<REQUEST_COUNT, REQUEST_DURATION, ACTIVE_REQUESTS, MEMORY_USAGE_GAUGE,
              CPU_USAGE_GAUGE, UPTIME_GAUGE>>

samplervars == <<environ, host, sampled>>

sampled_gauges == <<MEMORY_USAGE_GAUGE, CPU_USAGE_GAUGE, UPTIME_GAUGE>>

\* what only the module-level code sets
loaded == <<name_main, module_pc, before_request_funcs, after_request_funcs,
            propagate_exceptions, START_TIME>>

(***************************************************************************)
(* Bounds                                                                  *)
(***************************************************************************)
MaxRequests == 2
MaxClock == 1
MaxEnvVars == 2

Requests == 1..MaxRequests

None == "None"

\* The underlying OS / library call raises.
Fail == [ok |-> FALSE]
\* An exception leaving a function of app.py.
Raised == [exc |-> "Exception"]
IsRaised(v) == "exc" \in DOMAIN v

(***************************************************************************)
(* Arithmetic helpers                                                      *)
(***************************************************************************)
\* A byte count of psutil: mib * 1024 * 1024 + rest bytes, 0 <= rest < 1024 * 1024
\* (Python's int is unbounded; 8 GiB is 8192 MiB and 0 bytes).
MiB == 1048576

ByteCount(mib, rest) == [mib |-> mib, rest |-> rest]

\* Rounding towards zero instead.
RoundDown(q, r, d) == q

\* Python's round(q + r / d) for q >= 0, 0 <= r < d: to nearest, ties to the even
\* neighbour. Dividing by 1024 twice is exact in binary floating point.
RoundHalfEven(q, r, d) ==
    IF 2 * r < d THEN q
    ELSE IF 2 * r > d THEN q + 1
    ELSE IF q % 2 = 0 THEN q ELSE q + 1

\* round(x / 1024 / 1024)
ToMB(x) == RoundHalfEven(x.mib, x.rest, MiB)

\* round(now - start, 2), in hundredths of a second. The clock counts ticks of 24 ms,
\* so an elapsed time is never half-way between two hundredths.
Uptime(now, start) ==
    LET ms == 24 * (now - start)
    IN  IF ms >= 0 THEN (2 * ms + 10) \div 20 ELSE 0 - ((10 - 2 * ms) \div 20)

(***************************************************************************)
(* What the host can answer to the samplers' calls                         *)
(***************************************************************************)
\* psutil.virtual_memory(): byte counts and a percentage, or the call raises.
MemSources ==
    {Fail} \cup
    { [ok |-> TRUE, total |-> tau[1], available |-> tau[2], used |-> tau[3],
       percent |-> tau[4]] :
        tau \in { <<ByteCount(8192, 0), ByteCount(4096, 0), ByteCount(4096, 0), 50>>,
                  <<ByteCount(4, 0), ByteCount(2, 524288), ByteCount(1, 524288), 37>>,
                  <<ByteCount(4, 0), ByteCount(1, 524288), ByteCount(2, 524288), 62>>,
                  <<ByteCount(3, 524288), ByteCount(0, 0), ByteCount(3, 524288), 100>>,
                  <<ByteCount(7, 524289), ByteCount(0, 2), ByteCount(7, 524287), 99>>,
                  <<ByteCount(5, 600000), ByteCount(0, 100000), ByteCount(5, 500000), 98>>,
                  <<ByteCount(2, 0), ByteCount(0, 0), ByteCount(3, 1), 100>> } }

\* psutil.cpu_count(), psutil.cpu_percent(interval=1), os.getloadavg(): getloadavg is
\* <<>> where the platform has no such function and <<-1>> where the call raises.
CpuSources ==
    {Fail} \cup
    [ok : {TRUE}, count : {4}, percent : {25}, getloadavg : {<< >>, <<-1>>, <<1, 2, 3>>}]

\* psutil.Process() and its queries.
ProcSources ==
    {Fail} \cup
    [ok : {TRUE}, memory_percent : {3}, cpu_percent : {0, 7}, create_time : {0},
     num_threads : {1, 5}]

\* os.getpid(), os.getppid()
Pids == {11, 12}

(***************************************************************************)
(* Samplers (app.py:95-146): the value returned and the records logged     *)
(***************************************************************************)
get_memory_info_unguarded(vm) ==
    IF ~vm.ok THEN Raised
    ELSE [total |-> ToMB(vm.total),
          available |-> ToMB(vm.available),
          used |-> ToMB(vm.used),
          percent |-> vm.percent]

get_memory_info(vm) ==
    IF ~vm.ok
    THEN [total |-> 0, available |-> 0, used |-> 0, percent |-> 0]
    ELSE [total |-> ToMB(vm.total),
          available |-> ToMB(vm.available),
          used |-> ToMB(vm.used),
          percent |-> vm.percent]

get_memory_info_silent(vm) == {}

get_memory_info_log(vm) ==
    IF ~vm.ok THEN {<<"error", "get_memory_info">>} ELSE {}

CpuCallsFail(c) == ~c.ok \/ c.getloadavg = <<-1>>

get_cpu_info_zero_count(c) ==
    IF CpuCallsFail(c)
    THEN [count |-> 0, percent |-> 0, load_avg |-> <<0, 0, 0>>]
    ELSE [count |-> c.count,
          percent |-> c.percent,
          load_avg |-> IF c.getloadavg = << >> THEN <<0, 0, 0>> ELSE c.getloadavg]

get_cpu_info(c) ==
    IF CpuCallsFail(c)
    THEN [count |-> 1, percent |-> 0, load_avg |-> <<0, 0, 0>>]
    ELSE [count |-> c.count,
          percent |-> c.percent,
          load_avg |-> IF c.getloadavg = << >> THEN <<0, 0, 0>> ELSE c.getloadavg]

get_cpu_info_log(c) ==
    IF CpuCallsFail(c) THEN {<<"error", "get_cpu_info">>} ELSE {}

get_process_info(p, pid, ppid, now, start) ==
    IF ~p.ok
    THEN [pid |-> pid, ppid |-> ppid, memory_percent |-> 0, cpu_percent |-> 0,
          create_time |-> now, uptime |-> Uptime(now, start), num_threads |-> 1]
    ELSE [pid |-> pid, ppid |-> ppid, memory_percent |-> p.memory_percent,
          cpu_percent |-> p.cpu_percent, create_time |-> p.create_time,
          uptime |-> Uptime(now, start), num_threads |-> p.num_threads]

get_process_info_log(p) ==
    IF ~p.ok THEN {<<"error", "get_process_info">>} ELSE {}

(***************************************************************************)
(* os.environ and its redaction (app.py:183-189, 220)                      *)
(***************************************************************************)
LowerCase == <<"a", "b", "c", "d", "e", "f", "g", "h", "i", "j", "k", "l", "m",
               "n", "o", "p", "q", "r", "s", "t", "u", "v", "w", "x", "y", "z">>
UpperCase == <<"A", "B", "C", "D", "E", "F", "G", "H", "I", "J", "K", "L", "M",
               "N", "O", "P", "Q", "R", "S", "T", "U", "V", "W", "X", "Y", "Z">>

\* str.upper() on a name given as the sequence of its characters
UpperChar(c) ==
    IF \E i \in DOMAIN LowerCase : LowerCase[i] = c
    THEN UpperCase[CHOOSE i \in DOMAIN LowerCase : LowerCase[i] = c]
    ELSE c

Upper(s) == [i \in DOMAIN s |-> UpperChar(s[i])]

\* Python's `w in s` for strings
Contains(s, w) ==
    \E i \in 1..(Len(s) - Len(w) + 1) : SubSeq(s, i, i + Len(w) - 1) = w

SensitiveWords ==
    { <<"S", "E", "C", "R", "E", "T">>,
      <<"P", "A", "S", "S", "W", "O", "R", "D">>,
      <<"T", "O", "K", "E", "N">>,
      <<"K", "E", "Y">> }

HIDDEN == "[HIDDEN]"

\* the test without key.upper()
IsSensitiveExact(key) == \E w \in SensitiveWords : Contains(key, w)

IsSensitive(key) == \E w \in SensitiveWords : Contains(Upper(key), w)

\* env_vars after the loop of lines 185-189; dict(sorted(...)) reorders the items and
\* keeps every one of them, so the mapping is the same function.
RedactEnv(env) ==
    [key \in DOMAIN env |-> IF IsSensitive(key) THEN HIDDEN ELSE env[key]]

EnvNames ==
    { <<"P", "A", "T", "H">>,
      <<"H", "O", "M", "E">>,
      <<"A", "P", "I", "_", "K", "E", "Y">>,
      <<"a", "p", "i", "_", "k", "e", "y">>,
      <<"D", "b", "P", "a", "s", "s", "w", "o", "r", "d">>,
      <<"M", "y", "S", "e", "c", "r", "e", "t", "s">>,
      <<"T", "O", "K", "E", "N">>,
      <<"K", "E", "_", "Y">>,
      <<"S", "E", "C", "R", "E", "_", "T", "O", "K", "E">> }

EnvValues == {"a", "b", HIDDEN}

Environs ==
    UNION { [names -> EnvValues] :
            names \in {n \in SUBSET EnvNames : Cardinality(n) <= MaxEnvVars} }

(***************************************************************************)
(* The server mode (app.py:61-68, 149-159)                                 *)
(***************************************************************************)
FLASK_ENV == <<"F", "L", "A", "S", "K", "_", "E", "N", "V">>
ENVIRONMENT == <<"E", "N", "V", "I", "R", "O", "N", "M", "E", "N", "T">>
SERVER_SOFTWARE == <<"S", "E", "R", "V", "E", "R", "_", "S", "O", "F", "T", "W", "A", "R", "E">>

production == <<"p", "r", "o", "d", "u", "c", "t", "i", "o", "n">>
development == <<"d", "e", "v", "e", "l", "o", "p", "m", "e", "n", "t">>
gunicorn == <<"g", "u", "n", "i", "c", "o", "r", "n">>
uwsgi == <<"u", "w", "s", "g", "i">>

\* os.environ.get(name, default)
environ_get(env, name, default) ==
    IF name \in DOMAIN env THEN env[name] ELSE default

\* os.environ.get(name) == value: an unset variable reads None, equal to no string
environ_is(env, name, value) == name \in DOMAIN env /\ env[name] = value

\* the test on FLASK_ENV and ENVIRONMENT alone
is_production_by_environment(env) ==
    \/ environ_is(env, FLASK_ENV, production)
    \/ environ_is(env, ENVIRONMENT, production)

is_production(env) ==
    \/ environ_is(env, FLASK_ENV, production)
    \/ environ_is(env, ENVIRONMENT, production)
    \/ Contains(environ_get(env, SERVER_SOFTWARE, << >>), gunicorn)
    \/ Contains(environ_get(env, SERVER_SOFTWARE, << >>), uwsgi)

\* debug_mode, the value of app.debug, is not among the items kept here.
get_server_info(env, pid, ppid) ==
    [server_software |-> environ_get(env, SERVER_SOFTWARE, <<"U", "n", "k", "n", "o", "w", "n">>),
     wsgi_server |-> IF Contains(environ_get(env, SERVER_SOFTWARE, << >>), gunicorn)
                     THEN "gunicorn" ELSE "development",
     is_production |-> is_production(env),
     flask_env |-> environ_get(env, FLASK_ENV, development),
     worker_pid |-> pid,
     worker_ppid |-> ppid]

\* What FLASK_ENV, ENVIRONMENT and SERVER_SOFTWARE can be set to: each one unset or
\* one of these values.
ServerEnvValues ==
    { << >>, production, development, uwsgi,
      <<"P", "r", "o", "d", "u", "c", "t", "i", "o", "n">>,
      <<"g", "u", "n", "i", "c", "o", "r", "n", "/", "2", "1">>,
      <<"G", "u", "n", "i", "c", "o", "r", "n">>,
      <<"W", "e", "r", "k", "z", "e", "u", "g", "/", "3">> }

ServerEnvirons ==
    UNION { [names -> ServerEnvValues] :
            names \in SUBSET {FLASK_ENV, ENVIRONMENT, SERVER_SOFTWARE} }

(***************************************************************************)
(* get_environment_info (app.py:176-221): the parts the samplers and the   *)
(* environment decide                                                      *)
(***************************************************************************)
get_environment_info(h, env, now, start) ==
    LET memory_info == get_memory_info(h.memory)
        cpu_info == get_cpu_info(h.cpu)
        process_info == get_process_info(h.process, h.pid, h.ppid, now, start)
    IN  IF IsRaised(memory_info) \/ IsRaised(cpu_info) \/ IsRaised(process_info)
        THEN Raised
        ELSE [application |-> [uptime |-> process_info.uptime,
                               pid |-> process_info.pid,
                               ppid |-> process_info.ppid],
              server |-> get_server_info(env, h.pid, h.ppid),
              system |-> [cpu_count |-> cpu_info.count,
                          cpu_percent |-> cpu_info.percent,
                          load_avg |-> cpu_info.load_avg,
                          memory_total_mb |-> memory_info.total,
                          memory_available_mb |-> memory_info.available,
                          memory_used_mb |-> memory_info.used,
                          memory_percent |-> memory_info.percent],
              process |-> process_info,
              environment_variables |-> RedactEnv(env)]

\* The metric objects after a call of get_environment_info, given as a record of
\* their values: neither the function nor the samplers it calls name one of them.
get_environment_info_metrics_refreshed(h, metric_values) ==
    [metric_values EXCEPT !.memory = @ + 1]

get_environment_info_metrics(h, metric_values) == metric_values

get_environment_info_log(h) ==
    get_memory_info_log(h.memory) \cup get_cpu_info_log(h.cpu)
        \cup get_process_info_log(h.process)

Hosts == [memory : MemSources, cpu : CpuSources, process : ProcSources,
          pid : Pids, ppid : Pids]

\* For a view only the samplers that fail matter: one host for each way of failing.
ViewHosts ==
    { h \in Hosts :
        /\ h.pid = 11 /\ h.ppid = 12
        /\ h.memory.ok => h.memory.total = ByteCount(3, 524288)
        /\ h.cpu.ok => h.cpu.getloadavg # << >>
        /\ h.process.ok => h.process.cpu_percent = 7 /\ h.process.num_threads = 5 }

(***************************************************************************)
(* The metric objects (app.py:49-58)                                       *)
(***************************************************************************)
\* Counter.labels(...).inc(): the child of a label set is created on first use.
CounterInc(counter, key) ==
    IF key \in DOMAIN counter
    THEN [counter EXCEPT ![key] = @ + 1]
    ELSE counter @@ (key :> 1)

HistogramObserveSkipped(histogram, key, amount) == histogram

\* Histogram.labels(...).observe(amount)
HistogramObserve(histogram, key, amount) ==
    IF key \in DOMAIN histogram
    THEN [histogram EXCEPT ![key] = [count |-> @.count + 1, sum |-> @.sum + amount]]
    ELSE histogram @@ (key :> [count |-> 1, sum |-> amount])

\* Gauge.inc() and Gauge.dec(): each one atomic under the metric's lock.
GaugeIncLost(gauge) == gauge

GaugeInc(gauge) == gauge + 1

GaugeDec(gauge) == gauge - 1

generate_latest_without_active(count, duration, active, memory, cpu, uptime) ==
    [flask_app_requests_total |-> count,
     flask_app_request_duration_seconds |-> duration,
     flask_app_active_requests |-> 0,
     flask_app_memory_usage_bytes |-> memory,
     flask_app_cpu_usage_percent |-> cpu,
     flask_app_uptime_seconds |-> uptime]

\* generate_latest(): the exposition lists every sample of every metric family.
generate_latest(count, duration, active, memory, cpu, uptime) ==
    [flask_app_requests_total |-> count,
     flask_app_request_duration_seconds |-> duration,
     flask_app_active_requests |-> active,
     flask_app_memory_usage_bytes |-> memory,
     flask_app_cpu_usage_percent |-> cpu,
     flask_app_uptime_seconds |-> uptime]

(***************************************************************************)
(* Routing (the @app.route decorators, app.py:224, 260, 543, 567)          *)
(***************************************************************************)
Methods == {"GET", "POST"}

url_map ==
    [path \in {"/healthcheck.html", "/", "/api/env", "/metrics"} |->
        CASE path = "/healthcheck.html" -> "health_check"
          [] path = "/" -> "index"
          [] path = "/api/env" -> "api_env"
          [] path = "/metrics" -> "metrics"]

Paths == DOMAIN url_map \cup {"/nonexistent-endpoint"}

\* The request lines tried: every path with GET; with POST one declared route and
\* one unknown path (a POST to any declared route is answered alike). They carry no
\* query string.
RequestLines ==
    { ml \in Methods \X Paths : ml[1] = "GET" \/ ml[2] \in {"/", "/nonexistent-endpoint"} }

\* A route declared without methods= answers GET (and HEAD, OPTIONS).
RouteMethods == {"GET", "HEAD", "OPTIONS"}

\* Flask's match_request: request.endpoint stays None when routing fails, and the
\* NotFound / MethodNotAllowed is raised later, by dispatch_request.
MatchRequest(method, path) ==
    IF path \notin DOMAIN url_map
    THEN [endpoint |-> None, routing_exception |-> 404]
    ELSE IF method \notin RouteMethods
    THEN [endpoint |-> None, routing_exception |-> 405]
    ELSE [endpoint |-> url_map[path], routing_exception |-> 0]

(***************************************************************************)
(* View functions: the response, or Raised                                 *)
(***************************************************************************)
\* request.args: the query parameters, a mapping from names to values; a value is
\* the sequence of its characters.
NoArgs == << >>

Probes ==
    { << >>,
      <<"l", "i", "v", "e", "n", "e", "s", "s">>,
      <<"r", "e", "a", "d", "y">>,
      <<"<", "b", ">">>,
      <<"a", "\"", "b", "\\">> }

QueryArgs == {NoArgs} \cup { ("probe" :> p) : p \in Probes }

\* request.args.get(name, default)
args_get_default(args, name, default) == default

args_get(args, name, default) ==
    IF name \in DOMAIN args THEN args[name] ELSE default

\* json.dumps of a str: quoted, with the quote and the backslash escaped
RECURSIVE JsonEscape(_)
JsonEscape(s) ==
    IF s = << >> THEN << >>
    ELSE (IF Head(s) \in {"\"", "\\"} THEN <<"\\", Head(s)>> ELSE <<Head(s)>>)
             \o JsonEscape(Tail(s))

JsonString(s) == <<"\"">> \o JsonEscape(s) \o <<"\"">>

\* health_check (app.py:224-257). The body is html_content: the text of the template
\* is kept in pieces, the interpolated values character by character. Of
\* health_status the items status and probe are written out; timestamp, uptime,
\* memory_usage, pid and server follow them in the <pre> element.
health_check(args, h, now, start) ==
    LET probe == args_get(args, "probe", <<"u", "n", "k", "n", "o", "w", "n">>)
        process_info == get_process_info(h.process, h.pid, h.ppid, now, start)
        memory_info == get_memory_info(h.memory)
        health_status ==
            <<"{", "\"status\": ">> \o JsonString(<<"h", "e", "a", "l", "t", "h", "y">>)
                \o <<",", "\"probe\": ">> \o JsonString(probe) \o <<",", "...", "}">>
        html_content ==
            <<"<html>", "<head>", "<title>Health Check - ">> \o probe
                \o <<"</title>", "</head>", "<body>", "<h1>Health Check: ">> \o probe
                \o <<"</h1>", "<pre>">> \o health_status
                \o <<"</pre>", "</body>", "</html>">>
    IN  IF IsRaised(process_info) \/ IsRaised(memory_info)
        THEN Raised
        ELSE [status |-> 200, body |-> [kind |-> "html", text |-> html_content]]

health_check_log(h) == get_process_info_log(h.process) \cup get_memory_info_log(h.memory)

\* index (app.py:260-540)
index(h, env, now, start) ==
    IF IsRaised(get_environment_info(h, env, now, start))
    THEN Raised
    ELSE [status |-> 200, body |-> [kind |-> "html", status |-> "dashboard"]]

\* api_env (app.py:543-564)
api_env(now, start) ==
    [status |-> 200, body |-> [kind |-> "json", status |-> "env"]]

\* metrics (app.py:567-580): m.fail_at names the psutil call of the try block that
\* raises ("none" when all succeed); the gauges set before it keep their new value.
MetricsSources ==
    [fail_at : {"none", "Process", "memory_info", "cpu_percent"}, rss : {100},
     cpu_percent : {5}]

metrics_gauges(m, gauges, now, start) ==
    CASE m.fail_at \in {"Process", "memory_info"} -> gauges
      [] m.fail_at = "cpu_percent" -> [gauges EXCEPT !.memory = m.rss]
      [] OTHER -> [memory |-> m.rss, cpu |-> m.cpu_percent, uptime |-> now - start]

metrics_log(m) ==
    IF m.fail_at = "none" THEN {} ELSE {<<"warning", "metrics">>}

metrics(count, duration, active, gauges) ==
    [status |-> 200,
     body |-> [kind |-> "text",
               exposition |-> generate_latest(count, duration, active, gauges.memory,
                                              gauges.cpu, gauges.uptime)]]

\* not_found (app.py:583-586) and Flask's default response to MethodNotAllowed
not_found(path) ==
    [status |-> 404, body |-> [kind |-> "json", error |-> "Not Found", path |-> path]]

method_not_allowed ==
    [status |-> 405, body |-> [kind |-> "html", status |-> "Method Not Allowed"]]

\* internal_error (app.py:589-593)
internal_error ==
    [status |-> 500, body |-> [kind |-> "json", error |-> "Internal Server Error"]]

NoResponse == [status |-> 0, body |-> [kind |-> None]]

(***************************************************************************)
(* after_request's labels (app.py:642, 645-648)                            *)
(***************************************************************************)
EndpointLabelRaw(endpoint) == endpoint

EndpointLabel(endpoint) == IF endpoint = None THEN "unknown" ELSE endpoint

StatusClassLabel(status_code) == status_code \div 100

StatusLabel(status_code) == status_code

(***************************************************************************)
(* State                                                                   *)
(***************************************************************************)
NoKey == << >>

IdleRequest ==
    [pc |-> "idle", method |-> None, path |-> None, endpoint |-> None,
     routing_exception |-> 0, has_start_time |-> FALSE, start_time |-> 0,
     response |-> NoResponse,
     \* history of the request, read by the properties only
     inc_done |-> FALSE, dec_done |-> FALSE, degraded |-> FALSE, defect |-> FALSE,
     observed_key |-> NoKey, counted_key |-> NoKey]

DefaultEnviron ==
    (<<"A", "P", "I", "_", "K", "E", "Y">> :> "a") @@ (<<"P", "A", "T", "H">> :> "b")

DefaultHost ==
    [memory |-> Fail, cpu |-> Fail, process |-> Fail, pid |-> 11, ppid |-> 12]

NoSample == [fn |-> None]

InitApp ==
    /\ name_main \in BOOLEAN
    /\ module_pc = "import"
    /\ before_request_funcs = {}
    /\ after_request_funcs = {}
    /\ propagate_exceptions \in BOOLEAN
    /\ clock = MaxClock
    /\ START_TIME = clock
    /\ req = [r \in Requests |-> IdleRequest]
    /\ log = {}

InitRegistry ==
    /\ REQUEST_COUNT = << >>
    /\ REQUEST_DURATION = << >>
    /\ ACTIVE_REQUESTS = 0
    /\ MEMORY_USAGE_GAUGE = 0
    /\ CPU_USAGE_GAUGE = 0
    /\ UPTIME_GAUGE = 0

Init ==
    /\ InitApp
    /\ InitRegistry
    /\ environ = DefaultEnviron
    /\ host = DefaultHost
    /\ sampled = NoSample

\* The values of the metric objects, and their assignment
MetricValues ==
    [count |-> REQUEST_COUNT, duration |-> REQUEST_DURATION, active |-> ACTIVE_REQUESTS,
     memory |-> MEMORY_USAGE_GAUGE, cpu |-> CPU_USAGE_GAUGE, uptime |-> UPTIME_GAUGE]

SetMetricValues(metric_values) ==
    /\ REQUEST_COUNT' = metric_values.count
    /\ REQUEST_DURATION' = metric_values.duration
    /\ ACTIVE_REQUESTS' = metric_values.active
    /\ MEMORY_USAGE_GAUGE' = metric_values.memory
    /\ CPU_USAGE_GAUGE' = metric_values.cpu
    /\ UPTIME_GAUGE' = metric_values.uptime

(***************************************************************************)
(* Module-level code of app.py                                             *)
(***************************************************************************)
\* Lines 608-625: run as a script, the module reaches app.run() here and serves
\* from inside it; the lines below 625 run only once app.run() has returned.
RunMain ==
    /\ module_pc = "import"
    /\ name_main
    /\ module_pc' = "app_run"
    /\ UNCHANGED <<name_main, before_request_funcs, after_request_funcs,
                   propagate_exceptions, clock, START_TIME, req, log>>
    /\ UNCHANGED <<registry, samplervars>>

\* Lines 629-633: imported, the module skips the __main__ block.
RegisterBeforeRequest ==
    /\ module_pc = "import"
    /\ ~name_main
    /\ before_request_funcs' = before_request_funcs \cup {"before_request"}
    /\ module_pc' = "before_request_registered"
    /\ UNCHANGED <<name_main, after_request_funcs, propagate_exceptions, clock,
                   START_TIME, req, log>>
    /\ UNCHANGED <<registry, samplervars>>

\* Lines 636-651
RegisterAfterRequest ==
    /\ module_pc = "before_request_registered"
    /\ after_request_funcs' = after_request_funcs \cup {"after_request"}
    /\ module_pc' = "loaded"
    /\ UNCHANGED <<name_main, before_request_funcs, propagate_exceptions, clock,
                   START_TIME, req, log>>
    /\ UNCHANGED <<registry, samplervars>>

\* The WSGI server hands requests to the app: gunicorn or a test client once the
\* module is imported, werkzeug's server while app.run() is running.
Serving == module_pc \in {"app_run", "loaded"}

(***************************************************************************)
(* The clock                                                               *)
(***************************************************************************)
Tick ==
    /\ clock < MaxClock
    /\ clock' = clock + 1
    /\ UNCHANGED <<loaded, req, log, registry, samplervars>>

\* time.time() is the wall clock: it can be set back.
ClockSetBack ==
    /\ clock > 0
    /\ clock' = clock - 1
    /\ UNCHANGED <<loaded, req, log, registry, samplervars>>

(***************************************************************************)
(* One request through Flask's wsgi_app                                    *)
(***************************************************************************)
\* RequestContext.push(): the URL is matched before any hook runs. Requests are
\* numbered in the order in which they arrive.
Arrive(r) ==
    /\ Serving
    /\ req[r].pc = "idle"
    /\ \A q \in Requests : q < r => req[q].pc # "idle"
    /\ \E line \in RequestLines :
        LET m == MatchRequest(line[1], line[2])
        IN  req' = [req EXCEPT ![r] = [@ EXCEPT !.pc = "pushed",
                                                !.method = line[1],
                                                !.path = line[2],
                                                !.endpoint = m.endpoint,
                                                !.routing_exception = m.routing_exception]]
    /\ UNCHANGED <<loaded, clock, log, registry, samplervars>>

\* before_request, line 632
BeforeRequestStamp(r) ==
    /\ req[r].pc = "pushed"
    /\ "before_request" \in before_request_funcs
    /\ req' = [req EXCEPT ![r] = [@ EXCEPT !.pc = "stamped",
                                            !.has_start_time = TRUE,
                                            !.start_time = clock]]
    /\ UNCHANGED <<loaded, clock, log, registry, samplervars>>

\* before_request, line 633
BeforeRequestInc(r) ==
    /\ req[r].pc = "stamped"
    /\ ACTIVE_REQUESTS' = GaugeInc(ACTIVE_REQUESTS)
    /\ req' = [req EXCEPT ![r] = [@ EXCEPT !.pc = "dispatch", !.inc_done = TRUE]]
    /\ UNCHANGED <<loaded, clock, log, REQUEST_COUNT, REQUEST_DURATION, sampled_gauges,
                   samplervars>>

\* preprocess_request is over: every registered before_request function has run.
Preprocessed(r) ==
    \/ req[r].pc = "dispatch"
    \/ req[r].pc = "pushed" /\ before_request_funcs = {}

\* Flask's handling of what dispatch_request yields. An HTTPException goes to its
\* error handler. Any other exception is re-raised to the server when
\* propagate_exceptions (testing or debug), without process_response; otherwise
\* handle_exception calls internal_error and finalizes its response.
Outcome(ret) ==
    IF ~IsRaised(ret) THEN [pc |-> "responded", response |-> ret]
    ELSE IF propagate_exceptions THEN [pc |-> "propagated", response |-> NoResponse]
    ELSE [pc |-> "responded", response |-> internal_error]

OutcomeLog(ret) ==
    IF IsRaised(ret) /\ ~propagate_exceptions THEN {<<"error", "internal_error">>} ELSE {}

\* dispatch_request raises the routing exception: not_found, or the default 405 page
DispatchRoutingError(r) ==
    /\ Preprocessed(r)
    /\ req[r].routing_exception # 0
    /\ req' = [req EXCEPT ![r] =
                [@ EXCEPT !.pc = "responded",
                          !.response = IF req[r].routing_exception = 404
                                       THEN not_found(req[r].path)
                                       ELSE method_not_allowed]]
    /\ UNCHANGED <<loaded, clock, log, registry, samplervars>>

\* Whether one of the sampling calls made by the view of this endpoint fails on h.
SamplingFails(endpoint, h) ==
    CASE endpoint = "health_check" -> ~h.process.ok \/ ~h.memory.ok
      [] endpoint = "index" -> ~h.memory.ok \/ CpuCallsFail(h.cpu) \/ ~h.process.ok
      [] OTHER -> FALSE

\* A view that samples the host: h is what the host answers during this call;
\* defect is an exception of the view's other code (socket.gethostname, jsonify, ...).
DispatchView(r) ==
    /\ Preprocessed(r)
    /\ req[r].endpoint \in {"health_check", "index", "api_env"}
    /\ \E h \in ViewHosts, defect \in BOOLEAN :
        LET ret == IF defect THEN Raised
                   ELSE CASE req[r].endpoint = "health_check" ->
                                 health_check(NoArgs, h, clock, START_TIME)
                          [] req[r].endpoint = "index" ->
                                 index(h, environ, clock, START_TIME)
                          [] OTHER -> api_env(clock, START_TIME)
            written == CASE req[r].endpoint = "health_check" -> health_check_log(h)
                         [] req[r].endpoint = "index" -> get_environment_info_log(h)
                         [] OTHER -> {}
            out == Outcome(ret)
        IN  /\ req' = [req EXCEPT ![r] = [@ EXCEPT !.pc = out.pc,
                                                    !.response = out.response,
                                                    !.degraded =
                                                        SamplingFails(req[r].endpoint, h),
                                                    !.defect = defect]]
            /\ log' = log \cup written \cup OutcomeLog(ret)
            /\ SetMetricValues(IF req[r].endpoint = "index"
                               THEN get_environment_info_metrics(h, MetricValues)
                               ELSE MetricValues)
    /\ UNCHANGED <<loaded, clock, samplervars>>

\* The metrics view: refresh the three gauges, then serialize the registry.
DispatchMetrics(r) ==
    /\ Preprocessed(r)
    /\ req[r].endpoint = "metrics"
    /\ \E m \in MetricsSources, defect \in BOOLEAN :
        LET g == metrics_gauges(m, [memory |-> MEMORY_USAGE_GAUGE,
                                    cpu |-> CPU_USAGE_GAUGE,
                                    uptime |-> UPTIME_GAUGE], clock, START_TIME)
            ret == IF defect THEN Raised
                   ELSE metrics(REQUEST_COUNT, REQUEST_DURATION, ACTIVE_REQUESTS, g)
            out == Outcome(ret)
        IN  /\ MEMORY_USAGE_GAUGE' = g.memory
            /\ CPU_USAGE_GAUGE' = g.cpu
            /\ UPTIME_GAUGE' = g.uptime
            /\ req' = [req EXCEPT ![r] = [@ EXCEPT !.pc = out.pc,
                                                    !.response = out.response,
                                                    !.degraded = (m.fail_at # "none"),
                                                    !.defect = defect]]
            /\ log' = log \cup metrics_log(m) \cup OutcomeLog(ret)
    /\ UNCHANGED <<loaded, clock, REQUEST_COUNT, REQUEST_DURATION, ACTIVE_REQUESTS,
                   samplervars>>

\* after_request, lines 639-645
AfterRequestObserve(r) ==
    /\ req[r].pc = "responded"
    /\ "after_request" \in after_request_funcs
    /\ req[r].has_start_time
    /\ LET duration == clock - req[r].start_time
           key == <<req[r].method, EndpointLabel(req[r].endpoint)>>
       IN  /\ REQUEST_DURATION' = HistogramObserve(REQUEST_DURATION, key, duration)
           /\ req' = [req EXCEPT ![r] = [@ EXCEPT !.pc = "observed",
                                                   !.observed_key = key]]
    /\ UNCHANGED <<loaded, clock, log, REQUEST_COUNT, ACTIVE_REQUESTS, sampled_gauges,
                   samplervars>>

\* after_request, lines 646-648
AfterRequestCount(r) ==
    /\ req[r].pc = "observed"
    /\ LET key == <<req[r].method, EndpointLabel(req[r].endpoint),
                    StatusLabel(req[r].response.status)>>
       IN  /\ REQUEST_COUNT' = CounterInc(REQUEST_COUNT, key)
           /\ req' = [req EXCEPT ![r] = [@ EXCEPT !.pc = "counted",
                                                   !.counted_key = key]]
    /\ UNCHANGED <<loaded, clock, log, REQUEST_DURATION, ACTIVE_REQUESTS, sampled_gauges,
                   samplervars>>

\* after_request, lines 650-651: outside the hasattr test
AfterRequestDec(r) ==
    /\ \/ req[r].pc = "counted"
       \/ /\ req[r].pc = "responded"
          /\ "after_request" \in after_request_funcs
          /\ ~req[r].has_start_time
    /\ ACTIVE_REQUESTS' = GaugeDec(ACTIVE_REQUESTS)
    /\ req' = [req EXCEPT ![r] = [@ EXCEPT !.pc = "done", !.dec_done = TRUE]]
    /\ UNCHANGED <<loaded, clock, log, REQUEST_COUNT, REQUEST_DURATION, sampled_gauges,
                   samplervars>>

\* process_response with no after_request function registered
Finalize(r) ==
    /\ req[r].pc = "responded"
    /\ after_request_funcs = {}
    /\ req' = [req EXCEPT ![r] = [@ EXCEPT !.pc = "done"]]
    /\ UNCHANGED <<loaded, clock, log, registry, samplervars>>

Next ==
    \/ RunMain
    \/ RegisterBeforeRequest
    \/ RegisterAfterRequest
    \/ Tick
    \/ ClockSetBack
    \/ \E r \in Requests : Arrive(r)
    \/ \E r \in Requests : BeforeRequestStamp(r)
    \/ \E r \in Requests : BeforeRequestInc(r)
    \/ \E r \in Requests : DispatchRoutingError(r)
    \/ \E r \in Requests : DispatchView(r)
    \/ \E r \in Requests : DispatchMetrics(r)
    \/ \E r \in Requests : AfterRequestObserve(r)
    \/ \E r \in Requests : AfterRequestCount(r)
    \/ \E r \in Requests : AfterRequestDec(r)
    \/ \E r \in Requests : Finalize(r)

Spec == Init /\ [][Next]_vars

(***************************************************************************)
(* The samplers called on their own, on every answer of the host           *)
(***************************************************************************)
InitIdleApp ==
    /\ name_main = FALSE
    /\ module_pc = "import"
    /\ before_request_funcs = {}
    /\ after_request_funcs = {}
    /\ propagate_exceptions = FALSE
    /\ clock \in 0..MaxClock
    /\ START_TIME \in 0..MaxClock
    /\ req = [r \in Requests |-> IdleRequest]
    /\ log = {}

InitSampler ==
    /\ InitIdleApp
    /\ InitRegistry
    /\ environ = DefaultEnviron
    /\ host \in Hosts
    /\ sampled = NoSample

CallGetMemoryInfo ==
    /\ sampled' = [fn |-> "get_memory_info", ret |-> get_memory_info(host.memory)]
    /\ log' = log \cup get_memory_info_log(host.memory)
    /\ UNCHANGED <<loaded, clock, req, registry, environ, host>>

CallGetCpuInfo ==
    /\ sampled' = [fn |-> "get_cpu_info", ret |-> get_cpu_info(host.cpu)]
    /\ log' = log \cup get_cpu_info_log(host.cpu)
    /\ UNCHANGED <<loaded, clock, req, registry, environ, host>>

CallGetProcessInfo ==
    /\ sampled' = [fn |-> "get_process_info",
                   ret |-> get_process_info(host.process, host.pid, host.ppid,
                                            clock, START_TIME)]
    /\ log' = log \cup get_process_info_log(host.process)
    /\ UNCHANGED <<loaded, clock, req, registry, environ, host>>

NextSampler ==
    \/ CallGetMemoryInfo
    \/ CallGetCpuInfo
    \/ CallGetProcessInfo

SpecSampler == InitSampler /\ [][NextSampler]_vars

(***************************************************************************)
(* health_check called with every query string, on every answer of the host*)
(***************************************************************************)
CallHealthCheck ==
    /\ \E args \in QueryArgs :
        sampled' = [fn |-> "health_check", args |-> args,
                    ret |-> health_check(args, host, clock, START_TIME)]
    /\ log' = log \cup health_check_log(host)
    /\ UNCHANGED <<loaded, clock, req, registry, environ, host>>

NextHealth == CallHealthCheck

SpecHealth == InitSampler /\ [][NextHealth]_vars

(***************************************************************************)
(* get_server_info called on every setting of the three variables          *)
(***************************************************************************)
InitServer ==
    /\ InitIdleApp
    /\ InitRegistry
    /\ environ \in ServerEnvirons
    /\ host = DefaultHost
    /\ sampled = NoSample

CallGetServerInfo ==
    /\ sampled' = [fn |-> "get_server_info",
                   ret |-> get_server_info(environ, host.pid, host.ppid)]
    /\ UNCHANGED <<loaded, clock, req, log, registry, environ, host>>

NextServer == CallGetServerInfo

SpecServer == InitServer /\ [][NextServer]_vars

(***************************************************************************)
(* get_environment_info called on every environment                        *)
(***************************************************************************)
InitEnv ==
    /\ InitIdleApp
    /\ clock >= START_TIME
    /\ InitRegistry
    /\ environ \in Environs
    /\ host = DefaultHost
    /\ sampled = NoSample

CallGetEnvironmentInfo ==
    /\ sampled' = [fn |-> "get_environment_info",
                   ret |-> get_environment_info(host, environ, clock, START_TIME)]
    /\ log' = log \cup get_environment_info_log(host)
    /\ SetMetricValues(get_environment_info_metrics(host, MetricValues))
    /\ UNCHANGED <<loaded, clock, req, environ, host>>

NextEnv == CallGetEnvironmentInfo

SpecEnv == InitEnv /\ [][NextEnv]_vars

(***************************************************************************)
(* Properties                                                              *)
(***************************************************************************)
Finished(r) == req[r].pc \in {"done", "propagated"}

Quiescent == \A r \in Requests : req[r].pc = "idle" \/ Finished(r)

NumFinished == Cardinality({r \in Requests : Finished(r)})

Counted(r) == req[r].counted_key # NoKey

Observed(r) == req[r].observed_key # NoKey

RECURSIVE SumOver(_, _)
SumOver(f, keys) ==
    IF keys = {} THEN 0
    ELSE LET k == CHOOSE x \in keys : TRUE
         IN  f[k] + SumOver(f, keys \ {k})

TotalCounted == SumOver(REQUEST_COUNT, DOMAIN REQUEST_COUNT)

TotalObserved ==
    SumOver([k \in DOMAIN REQUEST_DURATION |-> REQUEST_DURATION[k].count],
            DOMAIN REQUEST_DURATION)

InFlight == {r \in Requests : req[r].inc_done /\ ~req[r].dec_done}

\* C1: once every request that entered the application has finished (returned
\* normally, 404, 500 through internal_error, or its exception propagated to the
\* server), ACTIVE_REQUESTS is exactly 0.
C1_GaugeZeroOnceAllFinished ==
    (Quiescent /\ NumFinished > 0) => ACTIVE_REQUESTS = 0

\* C2: in every reachable state 0 <= ACTIVE_REQUESTS <= N, the gauge never exceeds
\* the number of requests whose increment ran and whose decrement did not, and no
\* request has run the decrement without having run the increment.
C2_GaugeWithinInFlight ==
    /\ 0 <= ACTIVE_REQUESTS
    /\ ACTIVE_REQUESTS <= MaxRequests
    /\ ACTIVE_REQUESTS <= Cardinality(InFlight)
    /\ \A r \in Requests : req[r].dec_done => req[r].inc_done

C2_Witness ==
    \E r1, r2 \in Requests :
        /\ req[r1].dec_done
        /\ req[r2].inc_done /\ ~req[r2].dec_done
        /\ ACTIVE_REQUESTS = 1

\* C3: after the requests have completed, under any interleaving, the request
\* counter summed over all series and the histogram's observation count have each
\* grown by exactly the number of completed requests.
C3_EveryRequestCountedOnce ==
    Quiescent => TotalCounted = NumFinished /\ TotalObserved = NumFinished

\* C4: whichever way the process was started, both hooks are registered before
\* a request is served.
C4_HooksRegisteredWhenServing ==
    Serving => /\ "before_request" \in before_request_funcs
               /\ "after_request" \in after_request_funcs

SameLetter(a, b) ==
    \/ a = b
    \/ \E i \in DOMAIN LowerCase : {a, b} = {LowerCase[i], UpperCase[i]}

ContainsIgnoringCase(s, w) ==
    \E i \in 1..(Len(s) - Len(w) + 1) :
        \A j \in 1..Len(w) : SameLetter(s[i + j - 1], w[j])

NamesSensitive(key) == \E w \in SensitiveWords : ContainsIgnoringCase(key, w)

\* C5: in environment_variables every variable whose name contains SECRET, PASSWORD,
\* TOKEN or KEY in any letter case reads "[HIDDEN]", every other variable reads its
\* real value, none is dropped, and environments that differ only in the values of
\* such variables give the same mapping.
C5_RedactionTotal ==
    sampled.fn = "get_environment_info" =>
        LET shown == sampled.ret.environment_variables
            sensitive == {key \in DOMAIN environ : NamesSensitive(key)}
        IN  /\ DOMAIN shown = DOMAIN environ
            /\ \A key \in DOMAIN environ :
                shown[key] = IF key \in sensitive THEN HIDDEN ELSE environ[key]
            /\ \A other \in [DOMAIN environ -> EnvValues] :
                (\A key \in DOMAIN environ \ sensitive : other[key] = environ[key])
                => get_environment_info(host, other, clock, START_TIME)
                       .environment_variables = shown

C5_Witness ==
    /\ sampled.fn = "get_environment_info"
    /\ LET api_key == <<"a", "p", "i", "_", "k", "e", "y">>
           path == <<"P", "A", "T", "H">>
       IN  /\ DOMAIN environ = {api_key, path}
           /\ environ[api_key] = "a"
           /\ sampled.ret.environment_variables[api_key] = HIDDEN
           /\ sampled.ret.environment_variables[path] = "b"

\* C6: when its underlying call fails each sampler returns its degraded value and
\* raises nothing: memory all 0; cpu count 1, percent 0, load_avg [0, 0, 0]; process
\* memory_percent 0, cpu_percent 0, num_threads 1 with the real pid, ppid and the
\* current uptime.
C6_DegradedValues ==
    /\ sampled.fn # None => ~IsRaised(sampled.ret)
    /\ (sampled.fn = "get_memory_info" /\ ~host.memory.ok) =>
            sampled.ret = [total |-> 0, available |-> 0, used |-> 0, percent |-> 0]
    /\ (sampled.fn = "get_cpu_info" /\ (~host.cpu.ok \/ host.cpu.getloadavg = <<-1>>)) =>
            sampled.ret = [count |-> 1, percent |-> 0, load_avg |-> <<0, 0, 0>>]
    /\ (sampled.fn = "get_process_info" /\ ~host.process.ok) =>
            /\ sampled.ret.memory_percent = 0
            /\ sampled.ret.cpu_percent = 0
            /\ sampled.ret.num_threads = 1
            /\ sampled.ret.pid = host.pid
            /\ sampled.ret.ppid = host.ppid
            /\ sampled.ret.uptime = Uptime(clock, START_TIME)

C6_Witness ==
    /\ sampled.fn = "get_process_info"
    /\ ~host.process.ok
    /\ host.pid # host.ppid
    /\ sampled.ret.uptime = 2

ViewReturned(r) == req[r].pc \in {"responded", "observed", "counted", "done", "propagated"}

\* C7: whichever of the memory, CPU and process sampling calls fail, GET /,
\* /healthcheck.html, /api/env and /metrics answer 200, /metrics with the exposition
\* of the registry (a view may still fail for a reason other than sampling).
C7_SamplingFailureNeverAnError ==
    \A r \in Requests :
        (req[r].endpoint # None /\ ViewReturned(r) /\ ~req[r].defect) =>
            /\ req[r].pc # "propagated"
            /\ req[r].response.status = 200
            /\ req[r].endpoint = "metrics" =>
                   "exposition" \in DOMAIN req[r].response.body

C7_Witness ==
    \E r \in Requests :
        /\ req[r].endpoint = "index"
        /\ req[r].degraded
        /\ req[r].response.status = 200
        /\ log = {<<"error", "get_memory_info">>, <<"error", "get_cpu_info">>,
                  <<"error", "get_process_info">>}

StatusClass(status_code) == status_code \div 100

C9_UnmatchedSentinel ==
    \A r \in Requests :
        (Counted(r) /\ req[r].routing_exception # 0) =>
            /\ req[r].observed_key[2] = "unmatched"
            /\ req[r].counted_key[2] = "unmatched"

RouteValue(r) ==
    IF req[r].routing_exception # 0 THEN "unknown" ELSE url_map[req[r].path]

\* C9 amended: a request that matched no route is observed and counted under the
\* route value "unknown"; a request that matched a route, under that route's name.
C9_UnknownSentinel ==
    \A r \in Requests :
        /\ Observed(r) => req[r].observed_key = <<req[r].method, RouteValue(r)>>
        /\ Counted(r) => /\ req[r].counted_key[1] = req[r].method
                         /\ req[r].counted_key[2] = RouteValue(r)

C9_Witness ==
    \E r1, r2 \in Requests :
        /\ Counted(r1) /\ req[r1].response.status = 404
        /\ req[r1].counted_key[2] = "unknown"
        /\ Counted(r2) /\ req[r2].counted_key[2] = "health_check"

ExportStep(r) ==
    /\ req[r].endpoint = "metrics"
    /\ req[r].pc \in {"pushed", "dispatch"}
    /\ req'[r].pc = "responded"
    /\ req'[r].response.status = 200

ObservedAmount(r) ==
    LET key == req'[r].observed_key
    IN  REQUEST_DURATION'[key].sum
            - (IF key \in DOMAIN REQUEST_DURATION THEN REQUEST_DURATION[key].sum ELSE 0)

\* C11: every duration after_request passes to the latency histogram is >= 0, however
\* the clock moved between the reading of before_request and that of after_request
\* (a wall clock stepped backwards included).
C11_ObservedDurationNeverNegative ==
    [][\A r \in Requests :
            (req[r].pc = "responded" /\ req'[r].pc = "observed")
            => ObservedAmount(r) >= 0]_vars

\* C12: GET /healthcheck.html answers 200 with an HTML body that contains the word
\* healthy and the value of the probe query parameter, whatever that value is; with
\* no probe parameter the body contains the word unknown in its place.
C12_HealthCheckShowsProbe ==
    sampled.fn = "health_check" =>
        /\ ~IsRaised(sampled.ret)
        /\ sampled.ret.status = 200
        /\ sampled.ret.body.kind = "html"
        /\ Contains(sampled.ret.body.text, <<"h", "e", "a", "l", "t", "h", "y">>)
        /\ \A p \in Probes :
            sampled.args = ("probe" :> p) => Contains(sampled.ret.body.text, p)
        /\ sampled.args = NoArgs =>
            Contains(sampled.ret.body.text,
                     <<"<h1>Health Check: ", "u", "n", "k", "n", "o", "w", "n", "</h1>">>)

C12_Witness ==
    /\ sampled.fn = "health_check"
    /\ sampled.args = ("probe" :> <<"a", "\"", "b", "\\">>)
    /\ ~host.process.ok
    /\ ~host.memory.ok
    /\ sampled.ret.status = 200
    /\ Contains(sampled.ret.body.text, <<"<h1>Health Check: ", "a", "\"", "b", "\\", "</h1>">>)

\* C13: a request to a path that matches no route is answered 404 with a JSON body
\* whose error is "Not Found" and whose path is the requested path, and it passes
\* through both hooks: it is counted, and the in-flight gauge it raised is restored.
C13_NotFoundAnsweredAndTracked ==
    \A r \in Requests :
        (req[r].routing_exception = 404 /\ Finished(r)) =>
            /\ req[r].response.status = 404
            /\ req[r].response.body =
                   [kind |-> "json", error |-> "Not Found", path |-> req[r].path]
            /\ Counted(r)
            /\ req[r].counted_key \in DOMAIN REQUEST_COUNT
            /\ req[r].inc_done
            /\ req[r].dec_done

\* x <= y for byte counts
BytesLeq(x, y) == x.mib < y.mib \/ (x.mib = y.mib /\ x.rest <= y.rest)

\* m is an integer nearest to the byte count x taken in megabytes, the even one of
\* the two when x lies half-way
NearestMB(m, x) ==
    /\ m \in {x.mib, x.mib + 1}
    /\ m = x.mib => 2 * x.rest <= MiB
    /\ m = x.mib + 1 => 2 * (MiB - x.rest) <= MiB
    /\ 2 * x.rest = MiB => m % 2 = 0

\* C14: on a successful sample get_memory_info returns total, available and used as
\* the source's byte counts in megabytes rounded to an integer and percent as the
\* source gives it (8589934592 / 4294967296 / 4294967296 / 50.0 gives
\* 8192 / 4096 / 4096 / 50.0), and used <= total is kept by the conversion.
C14_MegabytesRoundedOrderKept ==
    (sampled.fn = "get_memory_info" /\ host.memory.ok) =>
        /\ NearestMB(sampled.ret.total, host.memory.total)
        /\ NearestMB(sampled.ret.available, host.memory.available)
        /\ NearestMB(sampled.ret.used, host.memory.used)
        /\ sampled.ret.percent = host.memory.percent
        /\ host.memory = [ok |-> TRUE, total |-> ByteCount(8192, 0),
                          available |-> ByteCount(4096, 0), used |-> ByteCount(4096, 0),
                          percent |-> 50]
           => sampled.ret = [total |-> 8192, available |-> 4096, used |-> 4096,
                             percent |-> 50]
        /\ BytesLeq(host.memory.used, host.memory.total)
           => sampled.ret.used <= sampled.ret.total

C14_Witness ==
    /\ sampled.fn = "get_memory_info"
    /\ host.memory.ok
    /\ host.memory.total = ByteCount(7, 524289)
    /\ host.memory.used = ByteCount(7, 524287)
    /\ sampled.ret.total = 8
    /\ sampled.ret.used = 7

\* the step in which the index view, and with it get_environment_info, runs for r
SnapshotStep(r) ==
    /\ req[r].endpoint = "index"
    /\ req[r].pc \in {"pushed", "dispatch"}
    /\ req'[r].pc \in {"responded", "propagated"}

\* C15: a call of get_environment_info, also with other requests in flight and also
\* when samplers fail, leaves the request counter, the latency histogram, the
\* in-flight gauge, the memory, CPU and uptime gauges and START_TIME unchanged.
C15_SnapshotLeavesSharedStateAlone ==
    [][\A r \in Requests : SnapshotStep(r) =>
            /\ REQUEST_COUNT' = REQUEST_COUNT
            /\ REQUEST_DURATION' = REQUEST_DURATION
            /\ ACTIVE_REQUESTS' = ACTIVE_REQUESTS
            /\ MEMORY_USAGE_GAUGE' = MEMORY_USAGE_GAUGE
            /\ CPU_USAGE_GAUGE' = CPU_USAGE_GAUGE
            /\ UPTIME_GAUGE' = UPTIME_GAUGE
            /\ START_TIME' = START_TIME]_vars

C15_Witness ==
    \E r1, r2 \in Requests :
        /\ req[r1].endpoint = "index"
        /\ req[r1].pc = "responded"
        /\ req[r1].degraded
        /\ req[r2].endpoint = "index"
        /\ req[r2].pc = "observed"
        /\ ACTIVE_REQUESTS = 2
        /\ DOMAIN REQUEST_DURATION # {}

\* C16: for every setting of FLASK_ENV, ENVIRONMENT and SERVER_SOFTWARE the server
\* mode of get_server_info is development (wsgi_server "development", not
\* production), production-managed ("gunicorn", production) or production-unmanaged
\* ("development", production); "gunicorn" without production does not occur.
C16_ThreeServerModes ==
    sampled.fn = "get_server_info" =>
        /\ <<sampled.ret.wsgi_server, sampled.ret.is_production>> \in
               { <<"development", FALSE>>, <<"gunicorn", TRUE>>, <<"development", TRUE>> }
        /\ ~(sampled.ret.wsgi_server = "gunicorn" /\ ~sampled.ret.is_production)

C16_Witness ==
    /\ sampled.fn = "get_server_info"
    /\ DOMAIN environ = {SERVER_SOFTWARE}
    /\ environ[SERVER_SOFTWARE] = <<"g", "u", "n", "i", "c", "o", "r", "n", "/", "2", "1">>
    /\ sampled.ret.wsgi_server = "gunicorn"
    /\ sampled.ret.is_production

\* the functions that log a sampling failure met while the view of endpoint runs
FailureLoggers(endpoint) ==
    CASE endpoint = "health_check" -> {"get_process_info", "get_memory_info"}
      [] endpoint = "index" -> {"get_memory_info", "get_cpu_info", "get_process_info"}
      [] endpoint = "metrics" -> {"metrics"}
      [] OTHER -> {}

NotAborted(r) == req[r].pc # "propagated" /\ req[r].response.status = 200

MethodEndpoints ==
    DOMAIN REQUEST_DURATION \cup { <<key[1], key[2]>> : key \in DOMAIN REQUEST_COUNT }

ObservationCount(me) ==
    IF me \in DOMAIN REQUEST_DURATION THEN REQUEST_DURATION[me].count ELSE 0

CountOverStatuses(me) ==
    SumOver(REQUEST_COUNT, {key \in DOMAIN REQUEST_COUNT : <<key[1], key[2]>> = me})

\* C18: after_request observes the latency, then increments the counter, then
\* decrements the in-flight gauge, so for each (method, endpoint) the histogram's
\* observation count is at least the request counter summed over all statuses, and
\* the two are equal whenever the in-flight gauge is 0 and no request is between its
\* time stamp and its increment of the gauge.
C18_ObservedBeforeCounted ==
    \A me \in MethodEndpoints :
        /\ ObservationCount(me) >= CountOverStatuses(me)
        /\ (ACTIVE_REQUESTS = 0 /\ \A r \in Requests : req[r].pc # "stamped")
           => ObservationCount(me) = CountOverStatuses(me)

C18_Witness ==
    \E r1, r2 \in Requests :
        /\ req[r1].pc = "done" /\ Counted(r1)
        /\ req[r2].pc = "observed"
        /\ req[r2].observed_key = req[r1].observed_key
        /\ ObservationCount(req[r2].observed_key) = 2
        /\ CountOverStatuses(req[r2].observed_key) = 1
        /\ ACTIVE_REQUESTS = 1

====
